---- MODULE Spec2Model ----
(***************************************************************************)
(* AT2XT: firmware bridging an AT (PS/2) keyboard to an XT host.           *)
(*                                                                         *)
(* The model has three parts.                                              *)
(*   - The firmware of src/src/main.rs: the main loop idle() with its      *)
(*     helpers send_byte_to_at_keyboard, send_byte_to_pc, send_xt_bit,     *)
(*     toggle_leds, and the clock-edge interrupt handler porta_handler.    *)
(*     Every rtfm::atomic section, every poll and every delay is one step  *)
(*     of the program counter pc.                                          *)
(*   - The modules main.rs uses but that are not part of the sources at    *)
(*     hand (keybuffer, keyfsm, driver), modelled from the specification.  *)
(*   - The two bus partners: the AT keyboard, which generates every AT     *)
(*     clock edge, and the XT host, which may pull xt_clk, xt_data and     *)
(*     xt_sense low.                                                       *)
(*                                                                         *)
(* The build without the timer (delay a counted loop) is specified by Spec *)
(* and, started in steady state, by SpecSteady; the build with the feature *)
(* use-timer (delay waiting for TIMEOUT) by SpecTimer.                     *)
(*                                                                         *)
(* Time is abstracted by one rule: two clock transitions of the keyboard   *)
(* are at least an AT half period (30 us) apart, in which the main loop    *)
(* executes at least one step unless it is waiting (in a delay, or in a    *)
(* poll whose condition does not hold).                                    *)
(***************************************************************************)
EXTENDS Integers, Sequences, FiniteSets, TLC

\* ------------------------------------------------------------------ bounds
\* Frames the keyboard begins to send (answers and keys).
MaxFrames == 3

\* --------------------------------------------------------- program constants
CMD_RESET == 255
BAT_OK == 170
CMD_LED == 237
KBD_ACK == 250
MASK_STARTSTOP == 16385
LED_NUM == 2
LED_CAPS == 4
\* An AT frame: start, 8 data bits, parity, stop.
FrameBits == 11
\* An XT frame: two framing bits and 8 data bits.
XtCells == 10

\* Scancodes the keyboard sends as keys (0x1C 'A' make, 0xF0 break prefix).
KeyBytes == {28, 240}

\* ------------------------------------------------------------ bit arithmetic
BitAt(w, i) == (w \div (2 ^ i)) % 2

\* u8::swap_bits of the bit_reverse crate.
swap_bits(b) ==
    BitAt(b, 0) * 128 + BitAt(b, 1) * 64 + BitAt(b, 2) * 32 + BitAt(b, 3) * 16
    + BitAt(b, 4) * 8 + BitAt(b, 5) * 4 + BitAt(b, 6) * 2 + BitAt(b, 7)

\* w & !m for 16-bit words.
RECURSIVE AndNotFrom(_, _, _)
AndNotFrom(w, m, i) ==
    IF i > 15 THEN 0
    ELSE BitAt(w, i) * (1 - BitAt(m, i)) * (2 ^ i) + AndNotFrom(w, m, i + 1)

AndNot(w, m) == AndNotFrom(w, m, 0)

\* Odd parity over the 8 data bits: the bit that makes the number of ones odd.
OnesCount(b) ==
    BitAt(b, 0) + BitAt(b, 1) + BitAt(b, 2) + BitAt(b, 3)
    + BitAt(b, 4) + BitAt(b, 5) + BitAt(b, 6) + BitAt(b, 7)

parity_bit(b) == 1 - (OnesCount(b) % 2)

\* The AT frame of data byte b with parity bit p, in wire order.
FrameSeq(b, p) ==
    <<0, BitAt(b, 0), BitAt(b, 1), BitAt(b, 2), BitAt(b, 3),
      BitAt(b, 4), BitAt(b, 5), BitAt(b, 6), BitAt(b, 7), p, 1>>

\* The data byte of a sequence of at least 9 wire bits (start, then LSB first).
WireByte(s) ==
    s[2] + 2 * s[3] + 4 * s[4] + 8 * s[5] + 16 * s[6] + 32 * s[7] + 64 * s[8] + 128 * s[9]

\* The data byte of the 10 cells of an XT frame (two framing bits, then LSB first).
XtByte(s) ==
    s[3] + 2 * s[4] + 4 * s[5] + 8 * s[6] + 16 * s[7] + 32 * s[8] + 64 * s[9] + 128 * s[10]

\* The ten cells send_byte_to_pc clocks out for a byte.
XtFrame(b) ==
    <<0, 1, BitAt(b, 0), BitAt(b, 1), BitAt(b, 2), BitAt(b, 3),
      BitAt(b, 4), BitAt(b, 5), BitAt(b, 6), BitAt(b, 7)>>

\* ------------------------------------------------------------- keybuffer
\* KeyIn: a 16-bit accumulator and a bit counter.
KeyInNew == [pos |-> 0, contents |-> 0]

KeyInShiftIn(k, bit) ==
    [pos |-> k.pos + 1, contents |-> (k.contents * 2 + bit) % 65536]

KeyInIsFull(k) == k.pos >= FrameBits

\* KeyOut: the frame still to shift out, least significant bit first.
KeyOutNew == [n |-> 0, contents |-> 0]

KeyOutPut(b) ==
    [n |-> FrameBits, contents |-> 2 * b + 512 * parity_bit(b) + 1024]

KeyOutIsEmpty(k) == k.n = 0

KeyOutBit(k) == k.contents % 2

KeyOutShiftOut(k) == [n |-> k.n - 1, contents |-> k.contents \div 2]

\* KeycodeBuffer: one slot.
BufferNew == [present |-> FALSE, word |-> 0]

BufferPut(w) == [present |-> TRUE, word |-> w]

BufferIsEmpty(b) == ~b.present

\* --------------------------------------------------- extraction (idle, 231-233)
\* The extraction without the final bit reversal.
ExtractKeyUnswapped(word) == (AndNot(word, MASK_STARTSTOP) \div 4) % 256

\* bits_in & !(0x4000 + 0x0001), >> 2, as u8, swap_bits.
ExtractKey(word) == swap_bits((AndNot(word, MASK_STARTSTOP) \div 4) % 256)

\* The accumulator after the 11 bits of the frame of b have been shifted in.
RECURSIVE ShiftAll(_, _)
ShiftAll(k, s) == IF s = <<>> THEN k ELSE ShiftAll(KeyInShiftIn(k, Head(s)), Tail(s))

AssembledWord(b, p) == ShiftAll(KeyInNew, FrameSeq(b, p)).contents

\* The raw word the specification writes for the frame of b.
StatedWord(b, p) == 16385 + 4 * swap_bits(b) + 2 * p

\* ------------------------------------------------------------------- state
VARIABLES
    \* main loop (idle and the functions it calls)
    pc,          \* position of the main loop
    at_ret,      \* where send_byte_to_at_keyboard returns to
    xt_ret,      \* where send_byte_to_pc returns to
    at_byte,     \* send_byte_to_at_keyboard's byte
    xt_arg,      \* send_byte_to_pc's byte as passed
    byte,        \* send_byte_to_pc's byte as shifted so far
    xt_i,        \* cells of the XT frame clocked so far
    led_mask,    \* toggle_leds' mask
    fsm_driver,  \* state of the control FSM
    loop_reply,  \* the reply handed to the FSM
    \* shared with the interrupt handler
    HOST_MODE, DEVICE_ACK, KEY_IN, KEY_OUT, IN_BUFFER,
    PORT_1_2,    \* the port: output latch, direction, at_clk interrupt enable and flag
    \* keyboard
    kb_state,    \* "idle", "tx" (device to host) or "rx" (host to device)
    kb_i,        \* bits of the frame in transmission already clocked
    kb_queue,    \* bytes the keyboard has yet to send
    kb_clk,      \* the keyboard pulls at_clk low
    kb_data,     \* the keyboard pulls at_data low
    kb_rx,       \* bits the keyboard has sampled of the frame it receives
    kb_frames,   \* frames the keyboard has begun to send
    kb_tick,     \* the keyboard moved its clock since the main loop's last step
    \* host
    host_clk,    \* the host pulls xt_clk low
    host_data,   \* the host pulls xt_data low
    \* observations, read by no action of the firmware
    obs,
    \* inputs and result of the extraction taken alone
    fn_b, fn_p, fn_word, fn_key,
    \* the delay of the timer build (feature use-timer)
    use_timer,   \* the build has the feature
    TIMEOUT,     \* the flag timer0_handler sets
    TACCR0,      \* the timer's compare register; the timer is stopped while it is 0
    TACCIFG,     \* the timer's interrupt is requested
    delay_pc     \* position inside delay: "call" before start_timer, "wait" after

fwVars == <<pc, at_ret, xt_ret, at_byte, xt_arg, byte, xt_i, led_mask, fsm_driver, loop_reply>>
flagVars == <<HOST_MODE, DEVICE_ACK>>
bufVars == <<KEY_IN, KEY_OUT, IN_BUFFER>>
kbVars == <<kb_state, kb_i, kb_queue, kb_clk, kb_data, kb_rx, kb_frames>>
hostVars == <<host_clk, host_data>>
fnVars == <<fn_b, fn_p, fn_word, fn_key>>
tmVars == <<use_timer, TIMEOUT, TACCR0, TACCIFG, delay_pc>>
vars == <<fwVars, flagVars, bufVars, PORT_1_2, kbVars, kb_tick, hostVars, obs, fnVars, tmVars>>

\* -------------------------------------------------------------------- pins
Pins == {"at_clk", "at_data", "xt_clk", "xt_data"}

\* KeyboardPins::idle: every line an input, pulled up.
PortIdle == [out |-> Pins, dir |-> {}, ie |-> FALSE, ifg |-> FALSE]

PinSet(port, pin) == [port EXCEPT !.out = @ \cup {pin}]
PinUnset(port, pin) == [port EXCEPT !.out = @ \ {pin}]
PinMkIn(port, pin) == [port EXCEPT !.dir = @ \ {pin}]
PinMkOut(port, pin) == [port EXCEPT !.dir = @ \cup {pin}]

\* The firmware drives the line low.
DrivesLow(port, pin) == pin \in port.dir /\ pin \notin port.out

\* at_inhibit: at_clk driven low, at_data driven high.
at_inhibit(port) ==
    [port EXCEPT !.out = (@ \ {"at_clk"}) \cup {"at_data"},
                 !.dir = @ \cup {"at_clk", "at_data"},
                 !.ifg = TRUE]

\* at_idle: both AT lines released.
at_idle(port) ==
    [port EXCEPT !.out = @ \cup {"at_clk", "at_data"},
                 !.dir = @ \ {"at_clk", "at_data"}]

\* xt_out: both XT lines outputs, driven high.
xt_out(port) ==
    [port EXCEPT !.out = @ \cup {"xt_clk", "xt_data"},
                 !.dir = @ \cup {"xt_clk", "xt_data"}]

\* xt_in: both XT lines inputs.
xt_in(port) == [port EXCEPT !.dir = @ \ {"xt_clk", "xt_data"}]

clear_at_clk_int(port) == [port EXCEPT !.ifg = FALSE]
enable_at_clk_int(port) == [port EXCEPT !.ie = TRUE]
disable_at_clk_int(port) == [port EXCEPT !.ie = FALSE]

\* The levels of the wired-and lines.
AtClkHigh == ~DrivesLow(PORT_1_2, "at_clk") /\ ~kb_clk
AtDataHigh == ~DrivesLow(PORT_1_2, "at_data") /\ ~kb_data
XtClkHigh == ~DrivesLow(PORT_1_2, "xt_clk") /\ ~host_clk
XtDataHigh == ~DrivesLow(PORT_1_2, "xt_data") /\ ~host_data

\* The at_clk interrupt is requested and enabled.
IntPending == PORT_1_2.ifg /\ PORT_1_2.ie

\* ----------------------------------------------------------- control FSM
\* Fsm::run: the next state and command for a state and a reply.
Reply(t, v) == [t |-> t, v |-> v]
Step(st, cmd, arg) == [st |-> st, cmd |-> cmd, arg |-> arg]

FsmRun(st, reply) ==
    CASE st = "Start" /\ reply.t = "Init" -> Step("ExpectBAT", "WaitForKey", 0)
      [] st = "ExpectBAT" /\ reply.t = "GrabbedKey" /\ reply.v = BAT_OK ->
            Step("LedInit1", "SendXTKey", BAT_OK)
      [] st = "ExpectBAT" /\ reply.t = "GrabbedKey" /\ reply.v # BAT_OK ->
            Step("ExpectBAT", "WaitForKey", 0)
      [] st = "ExpectBAT" /\ reply.t = "KeyboardReset" -> Step("Restart", "ClearBuffer", 0)
      [] st = "LedInit1" /\ reply.t = "SentKey" -> Step("LedInit2", "ToggleLed", LED_NUM)
      [] st = "LedInit2" /\ reply.t = "LedToggled" ->
            Step("LedInit3", "ToggleLed", LED_CAPS + LED_NUM)
      [] st = "LedInit3" /\ reply.t = "LedToggled" -> Step("LedDone", "ToggleLed", 0)
      [] st = "LedDone" /\ reply.t = "LedToggled" -> Step("Steady", "WaitForKey", 0)
      [] st = "Steady" /\ reply.t = "GrabbedKey" -> Step("Emit", "SendXTKey", reply.v)
      [] st = "Steady" /\ reply.t = "KeyboardReset" -> Step("Restart", "ClearBuffer", 0)
      [] st = "Emit" /\ reply.t = "SentKey" -> Step("Steady", "WaitForKey", 0)
      [] st = "Restart" /\ reply.t = "ClearedBuffer" -> Step("ExpectBAT", "WaitForKey", 0)
      [] OTHER -> Step(st, "None", 0)

\* ------------------------------------------------------------ observations
ObsInit ==
    [at_acked |-> -1,     \* the byte the keyboard acknowledged in this AT transmission
     xt_cells |-> <<>>,   \* the cells clocked in this XT frame, as the host samples them
     aligned |-> TRUE,    \* KEY_IN holds the first kb_i bits of the frame in transmission
     buf_src |-> -1,      \* the byte whose frame, received whole, is the word in IN_BUFFER
     key_src |-> -1,      \* the same for the word this WaitForKey took
     xt_n |-> 0,          \* XT frames begun since this WaitForKey's command was issued
     took |-> FALSE,      \* this WaitForKey took a word from IN_BUFFER
     reset |-> FALSE,     \* this WaitForKey read xt_sense low
     led_log |-> <<>>,    \* bytes the keyboard acknowledged since the LED commands began
     led_fa |-> FALSE,    \* a word carrying 0xFA was received since this ToggleLed began
     collided |-> FALSE,  \* a frame began inside an AT send, none has begun since
     follows |-> FALSE,   \* the frame in transmission is the first begun after that
     booted |-> FALSE]    \* the FSM has been handed the keyboard's BAT code

\* ------------------------------------------------------------------- Init
\* The build without the timer: delay is a counted loop, the timer is never used.
NoTimer ==
    /\ use_timer = FALSE /\ TIMEOUT = FALSE /\ TACCR0 = 0 /\ TACCIFG = FALSE
    /\ delay_pc = "call"

\* The state after construction with a boot transmission of 0xED.
InitSysLed ==
    /\ pc = "at_load" /\ at_byte = CMD_LED /\ at_ret = "fsm"
    /\ xt_ret = "sent_key" /\ xt_arg = 0 /\ byte = 0 /\ xt_i = 0 /\ led_mask = 0
    /\ fsm_driver = "Start" /\ loop_reply = Reply("Init", 0)
    /\ HOST_MODE = FALSE /\ DEVICE_ACK = FALSE
    /\ KEY_IN = KeyInNew /\ KEY_OUT = KeyOutNew /\ IN_BUFFER = BufferNew
    /\ PORT_1_2 = PortIdle
    /\ kb_state = "idle" /\ kb_i = 0 /\ kb_queue = <<>> /\ kb_clk = FALSE
    /\ kb_data = FALSE /\ kb_rx = <<>> /\ kb_frames = 0 /\ kb_tick = FALSE
    /\ host_clk = FALSE /\ host_data = FALSE
    /\ obs = ObsInit
    /\ NoTimer

InitSys ==
    /\ pc = "at_load" /\ at_byte = CMD_RESET /\ at_ret = "fsm"
    /\ xt_ret = "sent_key" /\ xt_arg = 0 /\ byte = 0 /\ xt_i = 0 /\ led_mask = 0
    /\ fsm_driver = "Start" /\ loop_reply = Reply("Init", 0)
    /\ HOST_MODE = FALSE /\ DEVICE_ACK = FALSE
    /\ KEY_IN = KeyInNew /\ KEY_OUT = KeyOutNew /\ IN_BUFFER = BufferNew
    /\ PORT_1_2 = PortIdle
    /\ kb_state = "idle" /\ kb_i = 0 /\ kb_queue = <<>> /\ kb_clk = FALSE
    /\ kb_data = FALSE /\ kb_rx = <<>> /\ kb_frames = 0 /\ kb_tick = FALSE
    /\ host_clk = FALSE /\ host_data = FALSE
    /\ obs = ObsInit
    /\ NoTimer

Init ==
    /\ InitSys
    /\ fn_b = 0 /\ fn_p = 0 /\ fn_word = 0 /\ fn_key = -1

\* ------------------------------------------------- send_byte_to_at_keyboard
\* The main loop is inside send_byte_to_at_keyboard, KeyOut loaded and HOST_MODE
\* not yet cleared.
AtSendPcs == {"at_wait_clk", "at_inhibit", "at_delay100", "at_delay33", "at_wait_ack",
              "at_clear_host"}

\* A step of the main loop: no interrupt is waiting to be served.
MainAt(label) == pc = label /\ ~IntPending /\ ~TACCIFG

\* The delay the main loop is in has run its time: the counted loop of lines
\* 349-359 ends by itself, the loop of line 364 when TIMEOUT reads true.
DelayOver == use_timer => (delay_pc = "wait" /\ TIMEOUT)

\* The load of KEY_OUT with the at_clk interrupt left enabled.
AtLoadKeepInt ==
    /\ pc = "at_load" /\ ~IntPending
    /\ IF KeyOutIsEmpty(KEY_OUT)
       THEN /\ KEY_OUT' = KeyOutPut(at_byte)
            /\ pc' = "at_wait_clk"
       ELSE /\ pc' = "panic"
            /\ UNCHANGED KEY_OUT
    /\ obs' = [obs EXCEPT !.at_acked = -1]
    /\ kb_tick' = FALSE
    /\ UNCHANGED <<at_ret, xt_ret, at_byte, xt_arg, byte, xt_i, led_mask, fsm_driver,
                   loop_reply, flagVars, KEY_IN, IN_BUFFER, PORT_1_2, kbVars, hostVars,
                   fnVars, tmVars>>

\* Lines 291-299: KEY_OUT.put(byte).unwrap() and disable_at_clk_int, one section.
AtLoad ==
    /\ MainAt("at_load")
    /\ IF KeyOutIsEmpty(KEY_OUT)
       THEN /\ KEY_OUT' = KeyOutPut(at_byte)
            /\ PORT_1_2' = disable_at_clk_int(PORT_1_2)
            /\ pc' = "at_wait_clk"
       ELSE /\ pc' = "panic"
            /\ UNCHANGED <<KEY_OUT, PORT_1_2>>
    /\ obs' = [obs EXCEPT !.at_acked = -1]
    /\ kb_tick' = FALSE
    /\ UNCHANGED <<at_ret, xt_ret, at_byte, xt_arg, byte, xt_i, led_mask, fsm_driver,
                   loop_reply, flagVars, KEY_IN, IN_BUFFER, kbVars, hostVars, fnVars, tmVars>>

\* Lines 303-306: leave the loop when at_clk reads high.
AtWaitClk ==
    /\ MainAt("at_wait_clk")
    /\ AtClkHigh
    /\ pc' = "at_inhibit"
    /\ kb_tick' = FALSE
    /\ UNCHANGED <<at_ret, xt_ret, at_byte, xt_arg, byte, xt_i, led_mask, fsm_driver,
                   loop_reply, flagVars, bufVars, PORT_1_2, kbVars, hostVars, obs, fnVars, tmVars>>

\* Lines 309-312: at_inhibit; the delay of line 314 begins.
AtInhibit ==
    /\ MainAt("at_inhibit")
    /\ PORT_1_2' = at_inhibit(PORT_1_2)
    /\ pc' = "at_delay100"
    /\ kb_tick' = FALSE
    /\ UNCHANGED <<at_ret, xt_ret, at_byte, xt_arg, byte, xt_i, led_mask, fsm_driver,
                   loop_reply, flagVars, bufVars, kbVars, hostVars, obs, fnVars, tmVars>>

\* Lines 314-319: the 100 us delay ends, at_data is driven low; the delay of
\* line 321 begins. A keyboard that was transmitting has seen at_clk held low for
\* 100 us by now: it has released both lines and will send its frame again.
AtDataLow ==
    /\ MainAt("at_delay100")
    /\ DelayOver
    /\ delay_pc' = "call"
    /\ PORT_1_2' = PinUnset(PORT_1_2, "at_data")
    /\ kb_state' = IF kb_state = "tx" THEN "idle" ELSE kb_state
    /\ kb_i' = IF kb_state = "tx" THEN 0 ELSE kb_i
    /\ kb_clk' = IF kb_state = "tx" THEN FALSE ELSE kb_clk
    /\ kb_data' = IF kb_state = "tx" THEN FALSE ELSE kb_data
    /\ obs' = IF kb_state = "tx"
              THEN [obs EXCEPT !.aligned = (KEY_IN.pos = 0), !.follows = FALSE] ELSE obs
    /\ pc' = "at_delay33"
    /\ kb_tick' = FALSE
    /\ UNCHANGED <<at_ret, xt_ret, at_byte, xt_arg, byte, xt_i, led_mask, fsm_driver,
                   loop_reply, flagVars, bufVars, kb_queue, kb_rx, kb_frames,
                   hostVars, fnVars,
                   use_timer, TIMEOUT, TACCR0, TACCIFG>>

\* Lines 321-335: the delay ends; at_clk released, the pending edge cleared, the
\* interrupt enabled, HOST_MODE set and DEVICE_ACK cleared, one section.
HandoverKeepClk(port) == enable_at_clk_int(clear_at_clk_int(port))

Handover(port) == enable_at_clk_int(clear_at_clk_int(PinMkIn(PinSet(port, "at_clk"), "at_clk")))

AtHandover ==
    /\ MainAt("at_delay33")
    /\ DelayOver
    /\ delay_pc' = "call"
    /\ PORT_1_2' = Handover(PORT_1_2)
    /\ HOST_MODE' = TRUE
    /\ DEVICE_ACK' = FALSE
    /\ pc' = "at_wait_ack"
    /\ kb_tick' = FALSE
    /\ UNCHANGED <<at_ret, xt_ret, at_byte, xt_arg, byte, xt_i, led_mask, fsm_driver,
                   loop_reply, bufVars, kbVars, hostVars, obs, fnVars,
                   use_timer, TIMEOUT, TACCR0, TACCIFG>>

\* The wait for the acknowledge given up without DEVICE_ACK.
AtWaitAckTimeout ==
    /\ pc = "at_wait_ack" /\ ~IntPending
    /\ pc' = "at_clear_host"
    /\ kb_tick' = FALSE
    /\ UNCHANGED <<at_ret, xt_ret, at_byte, xt_arg, byte, xt_i, led_mask, fsm_driver,
                   loop_reply, flagVars, bufVars, PORT_1_2, kbVars, hostVars, obs, fnVars, tmVars>>

\* Line 337: leave the loop when DEVICE_ACK reads true.
AtWaitAck ==
    /\ MainAt("at_wait_ack")
    /\ DEVICE_ACK
    /\ pc' = "at_clear_host"
    /\ kb_tick' = FALSE
    /\ UNCHANGED <<at_ret, xt_ret, at_byte, xt_arg, byte, xt_i, led_mask, fsm_driver,
                   loop_reply, flagVars, bufVars, PORT_1_2, kbVars, hostVars, obs, fnVars, tmVars>>

\* The return of send_byte_to_at_keyboard without the store to HOST_MODE.
AtClearHostKeep ==
    /\ pc = "at_clear_host" /\ ~IntPending
    /\ pc' = at_ret
    /\ kb_tick' = FALSE
    /\ UNCHANGED <<at_ret, xt_ret, at_byte, xt_arg, byte, xt_i, led_mask, fsm_driver,
                   loop_reply, flagVars, bufVars, PORT_1_2, kbVars, hostVars, obs, fnVars,
                   tmVars>>

\* Line 339: HOST_MODE cleared; the function returns.
AtClearHost ==
    /\ MainAt("at_clear_host")
    /\ HOST_MODE' = FALSE
    /\ pc' = at_ret
    /\ kb_tick' = FALSE
    /\ UNCHANGED <<at_ret, xt_ret, at_byte, xt_arg, byte, xt_i, led_mask, fsm_driver,
                   loop_reply, DEVICE_ACK, bufVars, PORT_1_2, kbVars, hostVars, obs, fnVars, tmVars>>

\* --------------------------------------------------------- send_byte_to_pc
\* The poll left without regard to the levels of the lines.
XtPollBlind ==
    /\ pc = "xt_poll" /\ ~IntPending
    /\ pc' = "xt_out"
    /\ kb_tick' = FALSE
    /\ UNCHANGED <<at_ret, xt_ret, at_byte, xt_arg, byte, xt_i, led_mask, fsm_driver,
                   loop_reply, flagVars, bufVars, PORT_1_2, kbVars, hostVars, obs, fnVars, tmVars>>

\* The host pulls one of the XT lines low.
HostPulls == host_clk \/ host_data

\* Lines 267-271: leave the loop when xt_clk and xt_data both read high.
HostHolds == ~XtClkHigh \/ ~XtDataHigh

XtPoll ==
    /\ MainAt("xt_poll")
    /\ ~HostHolds
    /\ pc' = "xt_out"
    /\ kb_tick' = FALSE
    /\ UNCHANGED <<at_ret, xt_ret, at_byte, xt_arg, byte, xt_i, led_mask, fsm_driver,
                   loop_reply, flagVars, bufVars, PORT_1_2, kbVars, hostVars, obs, fnVars, tmVars>>

\* Lines 273-275: xt_out, one section.
XtOut ==
    /\ MainAt("xt_out")
    /\ PORT_1_2' = xt_out(PORT_1_2)
    /\ obs' = [obs EXCEPT !.xt_n = @ + 1]
    /\ pc' = "xt_bit"
    /\ kb_tick' = FALSE
    /\ UNCHANGED <<at_ret, xt_ret, at_byte, xt_arg, byte, xt_i, led_mask, fsm_driver,
                   loop_reply, flagVars, bufVars, kbVars, hostVars, fnVars, tmVars>>

\* The cell's bit taken from the most significant end of byte.
CellBitMsb == IF xt_i = 0 THEN 0 ELSE IF xt_i = 1 THEN 1 ELSE (byte \div 128) % 2

\* The bit send_byte_to_pc passes to send_xt_bit for cell xt_i (lines 277-281).
CellBit == IF xt_i = 0 THEN 0 ELSE IF xt_i = 1 THEN 1 ELSE byte % 2

\* Lines 242-250: send_xt_bit sets xt_data to the bit (interrupts masked).
XtData ==
    /\ MainAt("xt_bit")
    /\ PORT_1_2' = IF CellBit = 1 THEN PinSet(PORT_1_2, "xt_data")
                                  ELSE PinUnset(PORT_1_2, "xt_data")
    /\ pc' = "xt_clk_low"
    /\ kb_tick' = FALSE
    /\ UNCHANGED <<at_ret, xt_ret, at_byte, xt_arg, byte, xt_i, led_mask, fsm_driver,
                   loop_reply, flagVars, bufVars, kbVars, hostVars, obs, fnVars, tmVars>>

\* Line 251: xt_clk pulled low, in the same section; the host samples xt_data on
\* this edge. The delay of line 254 begins. Once the first cell has begun nothing
\* reads what the host does with the lines, and its hold is tracked no further.
XtClkLow ==
    /\ pc = "xt_clk_low"
    /\ PORT_1_2' = PinUnset(PORT_1_2, "xt_clk")
    /\ obs' = [obs EXCEPT !.xt_cells =
                 Append(@, IF DrivesLow(PORT_1_2, "xt_data") THEN 0 ELSE 1)]
    /\ host_clk' = FALSE /\ host_data' = FALSE
    /\ pc' = "xt_cell"
    /\ kb_tick' = FALSE
    /\ UNCHANGED <<at_ret, xt_ret, at_byte, xt_arg, byte, xt_i, led_mask, fsm_driver,
                   loop_reply, flagVars, bufVars, kbVars, fnVars, tmVars>>

\* The end of a cell without the shift of line 282.
XtClkHighNoShift ==
    /\ MainAt("xt_cell")
    /\ PORT_1_2' = PinSet(PORT_1_2, "xt_clk")
    /\ xt_i' = xt_i + 1
    /\ pc' = IF xt_i + 1 < XtCells THEN "xt_bit" ELSE "xt_in"
    /\ kb_tick' = FALSE
    /\ UNCHANGED <<at_ret, xt_ret, at_byte, xt_arg, byte, led_mask, fsm_driver,
                   loop_reply, flagVars, bufVars, kbVars, hostVars, obs, fnVars, tmVars>>

\* Lines 254-259 and 282: the 55 us delay ends, xt_clk released high; after a data
\* cell, byte is shifted right.
XtClkHighStep ==
    /\ MainAt("xt_cell")
    /\ DelayOver
    /\ delay_pc' = "call"
    /\ PORT_1_2' = PinSet(PORT_1_2, "xt_clk")
    /\ byte' = IF xt_i >= 2 THEN byte \div 2 ELSE byte
    /\ xt_i' = xt_i + 1
    /\ pc' = IF xt_i + 1 < XtCells THEN "xt_bit" ELSE "xt_in"
    /\ kb_tick' = FALSE
    /\ UNCHANGED <<at_ret, xt_ret, at_byte, xt_arg, led_mask, fsm_driver,
                   loop_reply, flagVars, bufVars, kbVars, hostVars, obs, fnVars,
                   use_timer, TIMEOUT, TACCR0, TACCIFG>>

\* Lines 285-287: xt_in, one section; the function returns.
XtIn ==
    /\ MainAt("xt_in")
    /\ PORT_1_2' = xt_in(PORT_1_2)
    /\ pc' = xt_ret
    /\ kb_tick' = FALSE
    /\ UNCHANGED <<at_ret, xt_ret, at_byte, xt_arg, byte, xt_i, led_mask, fsm_driver,
                   loop_reply, flagVars, bufVars, kbVars, hostVars, obs, fnVars, tmVars>>

\* ---------------------------------------------------------------- idle
\* Lines 189-206: the FSM runs on the last reply and the command is dispatched.
\* SendXTKey and ToggleLed enter the function they call.
RunFsm ==
    /\ MainAt("fsm")
    /\ LET r == FsmRun(fsm_driver, loop_reply) IN
       /\ fsm_driver' = r.st
       /\ pc' = CASE r.cmd = "ClearBuffer" -> "clear_buffer"
                  [] r.cmd = "ToggleLed" -> "at_load"
                  [] r.cmd = "SendXTKey" -> "xt_poll"
                  [] r.cmd = "WaitForKey" -> "wfk_poll"
                  [] OTHER -> "panic"
       /\ led_mask' = IF r.cmd = "ToggleLed" THEN r.arg ELSE led_mask
       /\ at_byte' = IF r.cmd = "ToggleLed" THEN CMD_LED ELSE at_byte
       /\ at_ret' = IF r.cmd = "ToggleLed" THEN "led_delay" ELSE at_ret
       /\ xt_arg' = IF r.cmd = "SendXTKey" THEN r.arg ELSE xt_arg
       /\ byte' = IF r.cmd = "SendXTKey" THEN r.arg ELSE byte
       /\ xt_i' = IF r.cmd = "SendXTKey" THEN 0 ELSE xt_i
       /\ xt_ret' = IF r.cmd = "SendXTKey" THEN "sent_key" ELSE xt_ret
       /\ obs' = [obs EXCEPT !.xt_cells = IF r.cmd = "SendXTKey" THEN <<>> ELSE @,
                             !.key_src = IF r.cmd = "WaitForKey" THEN -1 ELSE @,
                             !.xt_n = IF r.cmd = "WaitForKey" THEN 0 ELSE @,
                             !.took = FALSE,
                             !.reset = FALSE,
                             !.led_log = IF r.cmd = "ToggleLed" THEN @ ELSE <<>>,
                             !.led_fa = FALSE,
                             !.booted = @ \/ r.st = "LedInit1"]
    /\ kb_tick' = FALSE
    /\ UNCHANGED <<loop_reply, flagVars, bufVars, PORT_1_2, kbVars, hostVars, fnVars, tmVars>>

\* Lines 192-197: IN_BUFFER.flush().
ClearBuffer ==
    /\ MainAt("clear_buffer")
    /\ IN_BUFFER' = BufferNew
    /\ loop_reply' = Reply("ClearedBuffer", 0)
    /\ obs' = [obs EXCEPT !.buf_src = -1]
    /\ pc' = "fsm"
    /\ kb_tick' = FALSE
    /\ UNCHANGED <<at_ret, xt_ret, at_byte, xt_arg, byte, xt_i, led_mask, fsm_driver,
                   flagVars, KEY_IN, KEY_OUT, PORT_1_2, kbVars, hostVars, fnVars, tmVars>>

\* toggle_leds sending the command byte a second time in place of the mask.
LedDelayRepeat ==
    /\ MainAt("led_delay")
    /\ at_byte' = CMD_LED
    /\ at_ret' = "led_done"
    /\ pc' = "at_load"
    /\ kb_tick' = FALSE
    /\ UNCHANGED <<xt_ret, xt_arg, byte, xt_i, led_mask, fsm_driver, loop_reply,
                   flagVars, bufVars, PORT_1_2, kbVars, hostVars, obs, fnVars, tmVars>>

\* Lines 344-345 (toggle_leds): the 3 ms delay ends and the mask is sent.
LedDelay ==
    /\ MainAt("led_delay")
    /\ DelayOver
    /\ delay_pc' = "call"
    /\ at_byte' = led_mask
    /\ at_ret' = "led_done"
    /\ pc' = "at_load"
    /\ kb_tick' = FALSE
    /\ UNCHANGED <<xt_ret, xt_arg, byte, xt_i, led_mask, fsm_driver, loop_reply,
                   flagVars, bufVars, PORT_1_2, kbVars, hostVars, obs, fnVars,
                   use_timer, TIMEOUT, TACCR0, TACCIFG>>

\* Line 200: ProcReply::LedToggled(m).
LedDone ==
    /\ MainAt("led_done")
    /\ loop_reply' = Reply("LedToggled", led_mask)
    /\ pc' = "fsm"
    /\ kb_tick' = FALSE
    /\ UNCHANGED <<at_ret, xt_ret, at_byte, xt_arg, byte, xt_i, led_mask, fsm_driver,
                   flagVars, bufVars, PORT_1_2, kbVars, hostVars, obs, fnVars, tmVars>>

\* Line 204: ProcReply::SentKey(k).
SentKey ==
    /\ MainAt("sent_key")
    /\ loop_reply' = Reply("SentKey", xt_arg)
    /\ pc' = "fsm"
    /\ kb_tick' = FALSE
    /\ UNCHANGED <<at_ret, xt_ret, at_byte, xt_arg, byte, xt_i, led_mask, fsm_driver,
                   flagVars, bufVars, PORT_1_2, kbVars, hostVars, obs, fnVars, tmVars>>

\* The loop of WaitForKey left without regard to IN_BUFFER.
WfkPollBlind ==
    /\ pc = "wfk_poll" /\ ~IntPending
    /\ pc' = "wfk_take"
    /\ kb_tick' = FALSE
    /\ UNCHANGED <<at_ret, xt_ret, at_byte, xt_arg, byte, xt_i, led_mask, fsm_driver,
                   loop_reply, flagVars, bufVars, PORT_1_2, kbVars, hostVars, obs, fnVars, tmVars>>

\* The loop of WaitForKey reading xt_sense whether or not IN_BUFFER is empty.
WfkPollSense ==
    /\ pc = "wfk_poll" /\ ~IntPending
    /\ pc' = "wfk_sense"
    /\ kb_tick' = FALSE
    /\ UNCHANGED <<at_ret, xt_ret, at_byte, xt_arg, byte, xt_i, led_mask, fsm_driver,
                   loop_reply, flagVars, bufVars, PORT_1_2, kbVars, hostVars, obs, fnVars,
                   tmVars>>

\* Line 211: the loop condition IN_BUFFER.is_empty(), one section.
WfkPoll ==
    /\ MainAt("wfk_poll")
    /\ pc' = IF BufferIsEmpty(IN_BUFFER) THEN "wfk_sense" ELSE "wfk_take"
    /\ kb_tick' = FALSE
    /\ UNCHANGED <<at_ret, xt_ret, at_byte, xt_arg, byte, xt_i, led_mask, fsm_driver,
                   loop_reply, flagVars, bufVars, PORT_1_2, kbVars, hostVars, obs, fnVars, tmVars>>

\* Lines 213-217: xt_sense read, one section; when it reads low the keyboard is
\* reset. The level the host gives the line is an input of the step.
WfkSense ==
    /\ MainAt("wfk_sense")
    /\ \E sense_low \in BOOLEAN :
         /\ pc' = IF sense_low THEN "at_load" ELSE "wfk_poll"
         /\ at_byte' = IF sense_low THEN CMD_RESET ELSE at_byte
         /\ at_ret' = IF sense_low THEN "wfk_bat" ELSE at_ret
         /\ obs' = [obs EXCEPT !.reset = sense_low,
                               !.at_acked = IF sense_low THEN -1 ELSE @,
                               !.xt_cells = IF sense_low THEN <<>> ELSE @]
    /\ kb_tick' = FALSE
    /\ UNCHANGED <<xt_ret, xt_arg, byte, xt_i, led_mask, fsm_driver, loop_reply,
                   flagVars, bufVars, PORT_1_2, kbVars, hostVars, fnVars, tmVars>>

\* The XT frame sent with a byte other than the BAT code.
WfkBatAck ==
    /\ MainAt("wfk_bat")
    /\ xt_arg' = KBD_ACK
    /\ byte' = KBD_ACK
    /\ xt_i' = 0
    /\ xt_ret' = "wfk_reset"
    /\ obs' = [obs EXCEPT !.xt_cells = <<>>]
    /\ pc' = "xt_poll"
    /\ kb_tick' = FALSE
    /\ UNCHANGED <<at_ret, at_byte, led_mask, fsm_driver, loop_reply,
                   flagVars, bufVars, PORT_1_2, kbVars, hostVars, fnVars, tmVars>>

\* Line 218: send_byte_to_pc(0xAA).
WfkBat ==
    /\ MainAt("wfk_bat")
    /\ xt_arg' = BAT_OK
    /\ byte' = BAT_OK
    /\ xt_i' = 0
    /\ xt_ret' = "wfk_reset"
    /\ obs' = [obs EXCEPT !.xt_cells = <<>>]
    /\ pc' = "xt_poll"
    /\ kb_tick' = FALSE
    /\ UNCHANGED <<at_ret, at_byte, led_mask, fsm_driver, loop_reply,
                   flagVars, bufVars, PORT_1_2, kbVars, hostVars, fnVars, tmVars>>

\* Lines 219-225: xt_reset = true, break, ProcReply::KeyboardReset.
WfkReset ==
    /\ MainAt("wfk_reset")
    /\ loop_reply' = Reply("KeyboardReset", 0)
    /\ pc' = "fsm"
    /\ kb_tick' = FALSE
    /\ UNCHANGED <<at_ret, xt_ret, at_byte, xt_arg, byte, xt_i, led_mask, fsm_driver,
                   flagVars, bufVars, PORT_1_2, kbVars, hostVars, obs, fnVars, tmVars>>

\* Lines 227-234: IN_BUFFER.take().unwrap(), the extraction, GrabbedKey.
WfkTake ==
    /\ MainAt("wfk_take")
    /\ IF BufferIsEmpty(IN_BUFFER)
       THEN /\ pc' = "panic"
            /\ UNCHANGED <<IN_BUFFER, loop_reply, obs>>
       ELSE /\ IN_BUFFER' = [IN_BUFFER EXCEPT !.present = FALSE]
            /\ loop_reply' = Reply("GrabbedKey", ExtractKey(IN_BUFFER.word))
            /\ obs' = [obs EXCEPT !.key_src = obs.buf_src, !.buf_src = -1, !.took = TRUE]
            /\ pc' = "fsm"
    /\ kb_tick' = FALSE
    /\ UNCHANGED <<at_ret, xt_ret, at_byte, xt_arg, byte, xt_i, led_mask, fsm_driver,
                   flagVars, KEY_IN, KEY_OUT, PORT_1_2, kbVars, hostVars, fnVars, tmVars>>

\* ------------------------------------------------------------ porta_handler
\* One bit onto at_data, the lines not released after the last.
HostShiftHold(port, k) ==
    IF KeyOutBit(k) = 1 THEN PinSet(port, "at_data") ELSE PinUnset(port, "at_data")

\* Lines 116-126: KEY_OUT not empty: one bit onto at_data, at_idle after the last.
HostShift(port, k) ==
    LET bit == KeyOutBit(k)
        p1 == IF bit = 1 THEN PinSet(port, "at_data") ELSE PinUnset(port, "at_data")
    IN  IF KeyOutIsEmpty(KeyOutShiftOut(k)) THEN at_idle(p1) ELSE p1

\* The port after at_idle and at_inhibit, in the reverse order.
DeviceFullInhibit(port) == at_inhibit(at_idle(port))

\* Lines 144-151: the port after at_inhibit and at_idle.
DeviceFull(port) == at_idle(at_inhibit(port))

\* The handler runs when the interrupt is requested and enabled and the main loop
\* is not inside a critical section; it runs to its end before anything else moves.
PortaHandler ==
    /\ IntPending
    /\ pc # "xt_clk_low"
    /\ IF HOST_MODE
       THEN /\ IF ~KeyOutIsEmpty(KEY_OUT)
               THEN /\ KEY_OUT' = KeyOutShiftOut(KEY_OUT)
                    /\ PORT_1_2' = clear_at_clk_int(HostShift(PORT_1_2, KEY_OUT))
                    /\ UNCHANGED DEVICE_ACK
               ELSE /\ IF ~AtDataHigh
                       THEN DEVICE_ACK' = TRUE /\ KEY_OUT' = KeyOutNew
                       ELSE UNCHANGED <<DEVICE_ACK, KEY_OUT>>
                    /\ PORT_1_2' = clear_at_clk_int(PORT_1_2)
            /\ UNCHANGED <<KEY_IN, IN_BUFFER, obs>>
       ELSE LET k == KeyInShiftIn(KEY_IN, IF AtDataHigh THEN 1 ELSE 0)
                al == obs.aligned /\ kb_state = "tx" /\ KEY_IN.pos = kb_i
            IN  /\ IF KeyInIsFull(k)
                   THEN /\ IN_BUFFER' = BufferPut(k.contents)
                        /\ KEY_IN' = KeyInNew
                        /\ PORT_1_2' = clear_at_clk_int(DeviceFull(PORT_1_2))
                        /\ obs' = [obs EXCEPT !.aligned = al,
                                     !.buf_src = IF al THEN Head(kb_queue) ELSE -1,
                                     !.led_fa = @ \/ ExtractKey(k.contents) = KBD_ACK]
                   ELSE /\ KEY_IN' = k
                        /\ PORT_1_2' = clear_at_clk_int(PORT_1_2)
                        /\ obs' = [obs EXCEPT !.aligned = al]
                        /\ UNCHANGED IN_BUFFER
                /\ UNCHANGED <<DEVICE_ACK, KEY_OUT>>
    /\ UNCHANGED <<fwVars, HOST_MODE, kbVars, kb_tick, hostVars, fnVars, tmVars>>

\* ---------------------------------------------------- delay, timer build
\* The positions of the main loop inside a call of delay, and us_to_ticks of
\* the timer build for the time each passes: 100, 33, 55 and 3000 us.
DelayPcs == {"at_delay100", "at_delay33", "xt_cell", "led_delay"}

us_to_ticks(u) == (u \div 10) + 1

DelayTicks ==
    CASE pc = "at_delay100" -> us_to_ticks(100)
      [] pc = "at_delay33" -> us_to_ticks(33)
      [] pc = "xt_cell" -> us_to_ticks(55)
      [] OTHER -> us_to_ticks(3000)

\* start_timer without the store to TIMEOUT.
StartTimerKeep ==
    /\ use_timer /\ pc \in DelayPcs /\ delay_pc = "call" /\ ~IntPending /\ ~TACCIFG
    /\ TACCR0' = DelayTicks
    /\ delay_pc' = "wait"
    /\ kb_tick' = FALSE
    /\ UNCHANGED <<fwVars, flagVars, bufVars, PORT_1_2, kbVars, hostVars, obs, fnVars,
                   use_timer, TIMEOUT, TACCIFG>>

\* Lines 370-376: start_timer, one section: TIMEOUT cleared, the timer programmed.
StartTimer ==
    /\ use_timer /\ pc \in DelayPcs /\ delay_pc = "call" /\ ~IntPending /\ ~TACCIFG
    /\ TIMEOUT' = FALSE
    /\ TACCR0' = DelayTicks
    /\ delay_pc' = "wait"
    /\ kb_tick' = FALSE
    /\ UNCHANGED <<fwVars, flagVars, bufVars, PORT_1_2, kbVars, hostVars, obs, fnVars,
                   use_timer, TACCIFG>>

\* The running timer counts up to TACCR0 and requests its interrupt.
TimerExpire ==
    /\ TACCR0 # 0 /\ ~TACCIFG
    /\ TACCIFG' = TRUE
    /\ UNCHANGED <<fwVars, flagVars, bufVars, PORT_1_2, kbVars, kb_tick, hostVars, obs,
                   fnVars, use_timer, TIMEOUT, TACCR0, delay_pc>>

\* Lines 102-111: timer0_handler: TIMEOUT set, the timer stopped; the request
\* is cleared on entry. It does not run inside a critical section.
Timer0Handler ==
    /\ TACCIFG
    /\ pc # "xt_clk_low"
    /\ TIMEOUT' = TRUE
    /\ TACCR0' = 0
    /\ TACCIFG' = FALSE
    /\ UNCHANGED <<fwVars, flagVars, bufVars, PORT_1_2, kbVars, kb_tick, hostVars, obs,
                   fnVars, use_timer, delay_pc>>

\* ---------------------------------------------------------------- keyboard
\* The main loop is waiting: in a delay, or in a poll whose condition does not hold.
MainWaiting ==
    \/ pc \in DelayPcs /\ (use_timer => (delay_pc = "wait" /\ ~TIMEOUT))
    \/ pc = "panic"
    \/ pc = "at_wait_clk" /\ ~AtClkHigh
    \/ pc = "at_wait_ack" /\ ~DEVICE_ACK
    \/ pc = "xt_poll" /\ HostHolds
    \/ pc \in {"wfk_poll", "wfk_sense"} /\ BufferIsEmpty(IN_BUFFER)

\* The keyboard may move its clock: the handler has served the last edge, and the
\* main loop has made a step since the last transition unless it is waiting.
KbMayMove == ~IntPending /\ (~kb_tick \/ MainWaiting)

\* The firmware has requested to send: at_clk released with at_data held low.
RequestToSend == ~DrivesLow(PORT_1_2, "at_clk") /\ DrivesLow(PORT_1_2, "at_data")

\* What the keyboard queues on a command: the reset answers ACK then BAT, any other
\* command ACK; a pending answer to an earlier command is dropped, keys are kept.
IsKey(b) == b \in KeyBytes

Respond(cmd, queue) ==
    IF cmd = CMD_RESET THEN <<KBD_ACK, BAT_OK>> ELSE <<KBD_ACK>> \o SelectSeq(queue, IsKey)

\* A keyboard too slow to answer a command other than the reset before the next one
\* arrives sends no answer to it.
Answers(cmd, queue) ==
    IF cmd = CMD_RESET THEN {Respond(cmd, queue)}
    ELSE {Respond(cmd, queue), SelectSeq(queue, IsKey)}

\* A key is pressed while the keyboard has nothing else to send.
KbPress ==
    /\ kb_state = "idle"
    /\ kb_queue = <<>>
    /\ kb_frames < MaxFrames
    /\ ~IntPending
    /\ \E b \in KeyBytes : kb_queue' = <<b>>
    /\ UNCHANGED <<fwVars, flagVars, bufVars, PORT_1_2, kb_state, kb_i, kb_clk, kb_data,
                   kb_rx, kb_frames, kb_tick, hostVars, obs, fnVars, tmVars>>

\* Device to host: the keyboard puts the next bit of its frame on at_data and pulls
\* at_clk low. It starts a frame only on an idle bus.
KbTxFall ==
    /\ KbMayMove
    /\ kb_queue # <<>>
    /\ ~kb_clk
    /\ ~DrivesLow(PORT_1_2, "at_clk")
    /\ \/ kb_state = "tx"
       \/ kb_state = "idle" /\ ~DrivesLow(PORT_1_2, "at_data") /\ kb_frames < MaxFrames
    /\ kb_state' = "tx"
    /\ kb_frames' = IF kb_state = "idle" THEN kb_frames + 1 ELSE kb_frames
    /\ kb_data' = (FrameSeq(Head(kb_queue), parity_bit(Head(kb_queue)))[kb_i + 1] = 0)
    /\ kb_clk' = TRUE
    /\ PORT_1_2' = [PORT_1_2 EXCEPT !.ifg = TRUE]
    /\ obs' = IF kb_state = "idle"
              THEN [obs EXCEPT !.collided = pc \in AtSendPcs,
                               !.follows = pc \notin AtSendPcs /\ obs.collided]
              ELSE obs
    /\ kb_tick' = TRUE
    /\ UNCHANGED <<fwVars, flagVars, bufVars, kb_i, kb_queue, kb_rx, hostVars, fnVars, tmVars>>

\* The keyboard releases at_clk; after the stop bit the frame is sent.
KbTxRise ==
    /\ KbMayMove
    /\ kb_state = "tx"
    /\ kb_clk
    /\ kb_clk' = FALSE
    /\ IF kb_i + 1 = FrameBits
       THEN /\ kb_state' = "idle"
            /\ kb_i' = 0
            /\ kb_data' = FALSE
            /\ kb_queue' = Tail(kb_queue)
            /\ obs' = [obs EXCEPT !.aligned = (KEY_IN.pos = 0), !.follows = FALSE]
       ELSE /\ kb_i' = kb_i + 1
            /\ UNCHANGED <<kb_state, kb_data, kb_queue, obs>>
    /\ kb_tick' = TRUE
    /\ UNCHANGED <<fwVars, flagVars, bufVars, PORT_1_2, kb_rx, kb_frames, hostVars, fnVars, tmVars>>

\* Host to device: the keyboard pulls at_clk low; once it has sampled the whole
\* frame it pulls at_data low as well, the acknowledge.
KbRxFall ==
    /\ KbMayMove
    /\ ~kb_clk
    /\ ~DrivesLow(PORT_1_2, "at_clk")
    /\ \/ kb_state = "rx"
       \/ kb_state = "idle" /\ RequestToSend
    /\ kb_state' = "rx"
    /\ kb_clk' = TRUE
    /\ kb_data' = (kb_state = "rx" /\ Len(kb_rx) = FrameBits)
    /\ obs' = IF kb_state = "rx" /\ Len(kb_rx) = FrameBits
              THEN [obs EXCEPT !.at_acked = WireByte(kb_rx),
                               !.led_log = IF at_ret \in {"led_delay", "led_done"}
                                           THEN Append(@, WireByte(kb_rx)) ELSE @]
              ELSE obs
    /\ PORT_1_2' = [PORT_1_2 EXCEPT !.ifg = TRUE]
    /\ kb_tick' = TRUE
    /\ UNCHANGED <<fwVars, flagVars, bufVars, kb_i, kb_queue, kb_rx, kb_frames,
                   hostVars, fnVars, tmVars>>

\* The keyboard releases at_clk and samples at_data; after the acknowledge it
\* releases at_data too and queues its answer to the command.
KbRxRise ==
    /\ KbMayMove
    /\ kb_state = "rx"
    /\ kb_clk
    /\ kb_clk' = FALSE
    /\ IF Len(kb_rx) = FrameBits
       THEN /\ kb_state' = "idle"
            /\ kb_data' = FALSE
            /\ kb_rx' = <<>>
            /\ kb_queue' \in Answers(WireByte(kb_rx), kb_queue)
            /\ obs' = [obs EXCEPT !.aligned = (KEY_IN.pos = 0)]
       ELSE /\ kb_rx' = Append(kb_rx, IF DrivesLow(PORT_1_2, "at_data") THEN 0 ELSE 1)
            /\ UNCHANGED <<kb_state, kb_data, kb_queue, obs>>
    /\ kb_tick' = TRUE
    /\ UNCHANGED <<fwVars, flagVars, bufVars, PORT_1_2, kb_i, kb_frames, hostVars, fnVars, tmVars>>

\* -------------------------------------------------------------------- host
\* The host pulls xt_clk or xt_data low, or releases them, while send_byte_to_pc
\* polls the lines and until the first cell of the frame begins.
HoldPcs == {"xt_poll", "xt_out", "xt_bit"}

HostPullClk ==
    /\ ~IntPending /\ ~host_clk /\ pc \in HoldPcs /\ xt_i = 0
    /\ host_clk' = TRUE
    /\ UNCHANGED <<fwVars, flagVars, bufVars, PORT_1_2, kbVars, kb_tick, host_data,
                   obs, fnVars, tmVars>>

HostPullData ==
    /\ ~IntPending /\ ~host_data /\ pc \in HoldPcs /\ xt_i = 0
    /\ host_data' = TRUE
    /\ UNCHANGED <<fwVars, flagVars, bufVars, PORT_1_2, kbVars, kb_tick, host_clk,
                   obs, fnVars, tmVars>>

HostRelease ==
    /\ ~IntPending /\ (host_clk \/ host_data) /\ pc \in HoldPcs /\ xt_i = 0
    /\ host_clk' = FALSE /\ host_data' = FALSE
    /\ UNCHANGED <<fwVars, flagVars, bufVars, PORT_1_2, kbVars, kb_tick, obs, fnVars, tmVars>>

\* ------------------------------------------------------------ specification
MainStep ==
    \/ AtLoad \/ AtWaitClk \/ AtInhibit \/ AtDataLow \/ AtHandover \/ AtWaitAck
    \/ AtClearHost
    \/ XtPoll \/ XtOut \/ XtData \/ XtClkLow \/ XtClkHighStep \/ XtIn
    \/ RunFsm \/ ClearBuffer \/ LedDelay \/ LedDone \/ SentKey
    \/ WfkPoll \/ WfkSense \/ WfkBat \/ WfkReset \/ WfkTake

KbStep == KbPress \/ KbTxFall \/ KbTxRise \/ KbRxFall \/ KbRxRise

HostStep == HostPullClk \/ HostPullData \/ HostRelease

Next == MainStep \/ PortaHandler \/ KbStep \/ HostStep

Spec == Init /\ [][Next]_vars

\* The main loop and the interrupt handler run whenever they can, the keyboard
\* keeps clocking a frame it has to send or to receive, and the host does not
\* hold an XT line for ever.
KbClock == KbTxFall \/ KbTxRise \/ KbRxFall \/ KbRxRise

Fairness ==
    /\ WF_vars(MainStep)
    /\ WF_vars(PortaHandler)
    /\ WF_vars(KbClock)
    /\ WF_vars(HostRelease)

FairSpec == Spec /\ Fairness

\* ------------------------------------------------------- the timer build
\* Lines 171-177 of init: the timer stopped, its interrupt enabled.
InitTimer ==
    /\ pc = "at_load" /\ at_byte = CMD_RESET /\ at_ret = "fsm"
    /\ xt_ret = "sent_key" /\ xt_arg = 0 /\ byte = 0 /\ xt_i = 0 /\ led_mask = 0
    /\ fsm_driver = "Start" /\ loop_reply = Reply("Init", 0)
    /\ HOST_MODE = FALSE /\ DEVICE_ACK = FALSE
    /\ KEY_IN = KeyInNew /\ KEY_OUT = KeyOutNew /\ IN_BUFFER = BufferNew
    /\ PORT_1_2 = PortIdle
    /\ kb_state = "idle" /\ kb_i = 0 /\ kb_queue = <<>> /\ kb_clk = FALSE
    /\ kb_data = FALSE /\ kb_rx = <<>> /\ kb_frames = 0 /\ kb_tick = FALSE
    /\ host_clk = FALSE /\ host_data = FALSE
    /\ obs = ObsInit
    /\ use_timer = TRUE /\ TIMEOUT = FALSE /\ TACCR0 = 0 /\ TACCIFG = FALSE
    /\ delay_pc = "call"
    /\ fn_b = 0 /\ fn_p = 0 /\ fn_word = 0 /\ fn_key = -1

TimerStep == StartTimer \/ TimerExpire \/ Timer0Handler

NextTimer == MainStep \/ PortaHandler \/ KbStep \/ HostStep \/ TimerStep

SpecTimer == InitTimer /\ [][NextTimer]_vars

\* --------------------------------------------- the extraction taken alone
\* Every data byte and either value of the parity bit.
InitExtract ==
    /\ InitSys
    /\ fn_b \in 0..255 /\ fn_p \in 0..1 /\ fn_word = -1 /\ fn_key = -1

\* The word as the specification writes it for the frame of fn_b.
FnStated ==
    /\ fn_word = -1
    /\ fn_word' = StatedWord(fn_b, fn_p)
    /\ UNCHANGED <<fwVars, flagVars, bufVars, PORT_1_2, kbVars, kb_tick, hostVars, obs,
                   fn_b, fn_p, fn_key, tmVars>>

\* The word KeyIn holds after the eleven bits of the frame were shifted in.
FnShifted ==
    /\ fn_word = -1
    /\ fn_word' = AssembledWord(fn_b, fn_p)
    /\ UNCHANGED <<fwVars, flagVars, bufVars, PORT_1_2, kbVars, kb_tick, hostVars, obs,
                   fn_b, fn_p, fn_key, tmVars>>

\* Lines 231-233 applied to the word.
FnExtract ==
    /\ fn_word # -1 /\ fn_key = -1
    /\ fn_key' = ExtractKey(fn_word)
    /\ UNCHANGED <<fwVars, flagVars, bufVars, PORT_1_2, kbVars, kb_tick, hostVars, obs,
                   fn_b, fn_p, fn_word, tmVars>>

NextExtract == FnStated \/ FnShifted \/ FnExtract

SpecExtract == InitExtract /\ [][NextExtract]_vars

\* ------------------------------------------- the firmware in steady state
\* The state the boot sequence ends in: the keyboard's BAT code sent on to the
\* host, the three LED commands acknowledged, nothing received since, and the
\* main loop about to poll in WaitForKey. Frames are counted from here.
SteadyState ==
    /\ pc = "wfk_poll" /\ at_byte = 0 /\ at_ret = "led_done"
    /\ xt_ret = "sent_key" /\ xt_arg = BAT_OK /\ byte = 0 /\ xt_i = XtCells /\ led_mask = 0
    /\ fsm_driver = "Steady" /\ loop_reply = Reply("LedToggled", 0)
    /\ HOST_MODE = FALSE /\ DEVICE_ACK = TRUE
    /\ KEY_IN = KeyInNew /\ KEY_OUT = KeyOutNew
    /\ IN_BUFFER = [present |-> FALSE, word |-> AssembledWord(BAT_OK, parity_bit(BAT_OK))]
    /\ PORT_1_2 = [PortIdle EXCEPT !.ie = TRUE]
    /\ kb_state = "idle" /\ kb_i = 0 /\ kb_queue = <<>> /\ kb_clk = FALSE
    /\ kb_data = FALSE /\ kb_rx = <<>> /\ kb_tick = FALSE
    /\ host_clk = FALSE /\ host_data = FALSE

InitSteady ==
    /\ SteadyState
    /\ kb_frames = 0
    /\ obs = [ObsInit EXCEPT !.at_acked = 0, !.xt_cells = XtFrame(BAT_OK), !.booted = TRUE]
    /\ NoTimer
    /\ fn_b = 0 /\ fn_p = 0 /\ fn_word = 0 /\ fn_key = -1

SpecSteady == InitSteady /\ [][Next]_vars

\* ================================================================== claims
\* The main loop is inside send_byte_to_pc, past the poll.
XtCellPcs == {"xt_bit", "xt_clk_low", "xt_cell", "xt_in"}

\* The state of a host reset under way, from the read of xt_sense to the reply.
ResetOrder ==
    obs.reset =>
        /\ (pc \in XtCellPcs \cup {"xt_poll", "xt_out", "wfk_bat", "wfk_reset"}) =>
               (obs.at_acked = CMD_RESET /\ DEVICE_ACK /\ ~HOST_MODE)
        /\ obs.xt_cells # <<>> => (pc \in XtCellPcs \cup {"wfk_reset", "fsm"})
        /\ (pc \in XtCellPcs \cup {"xt_poll", "xt_out"}) => xt_arg = BAT_OK
        /\ (pc \in {"wfk_reset", "fsm"}) => obs.xt_cells = XtFrame(BAT_OK)
        /\ pc = "fsm" => loop_reply = Reply("KeyboardReset", 0)
        /\ ~obs.took
        /\ pc # "wfk_take"

\* C1: once WaitForKey has read xt_sense low, no XT cell is clocked before the
\* keyboard has acknowledged the whole AT frame of 0xFF and the firmware has
\* seen DEVICE_ACK; the XT frame then sent is 0xAA; the reply is KeyboardReset
\* with nothing taken from IN_BUFFER; and the sequence runs to its end unless
\* the host holds an XT line low.
C1_HostReset ==
    /\ []ResetOrder
    /\ (obs.reset /\ pc = "at_load") ~> (pc = "wfk_reset" \/ HostPulls)

\* C1 witness: a host reset in steady state has run to its end.
C1_Witness ==
    /\ obs.reset /\ pc = "fsm" /\ fsm_driver = "Steady"
    /\ loop_reply = Reply("KeyboardReset", 0)
    /\ obs.at_acked = CMD_RESET /\ obs.xt_cells = XtFrame(BAT_OK)

\* The main loop has sent, in state Emit, the XT frame for a key whose AT frame
\* was received whole, and is about to hand SentKey to the FSM.
KeyEmitted ==
    /\ pc = "fsm" /\ fsm_driver = "Emit" /\ loop_reply.t = "SentKey"
    /\ obs.key_src # -1

C3_ExtractionLaw ==
    (fn_key # -1 /\ fn_word = StatedWord(fn_b, fn_p)) => fn_key = fn_b

\* C3 witness: the extraction has been applied to the stated word of a byte that
\* is not its own bit reversal, with the parity bit set.
C3_Witness ==
    /\ fn_key # -1 /\ fn_word = StatedWord(fn_b, fn_p)
    /\ fn_b = 28 /\ fn_p = 1 /\ fn_key = 28

\* C5: send_byte_to_pc clocks the ten cells 0, 1, bit 0 .. bit 7 of its byte, in
\* this order; xt_data carries the cell's bit before xt_clk is pulled low, and
\* xt_clk is high again before the next cell; the XT lines are outputs from
\* before the first cell until after the tenth and inputs otherwise; after the
\* tenth cell the function returns without waiting for the host.
C5_XtFrame ==
    /\ pc \in {"xt_bit", "xt_clk_low"} =>
          /\ xt_i < XtCells
          /\ obs.xt_cells = SubSeq(XtFrame(xt_arg), 1, xt_i)
          /\ ~DrivesLow(PORT_1_2, "xt_clk")
    /\ pc = "xt_clk_low" =>
          DrivesLow(PORT_1_2, "xt_data") = (XtFrame(xt_arg)[xt_i + 1] = 0)
    /\ pc = "xt_cell" =>
          /\ obs.xt_cells = SubSeq(XtFrame(xt_arg), 1, xt_i + 1)
          /\ DrivesLow(PORT_1_2, "xt_clk")
    /\ pc = "xt_in" =>
          /\ xt_i = XtCells
          /\ obs.xt_cells = XtFrame(xt_arg)
          /\ ~IntPending => ENABLED XtIn
    /\ {"xt_clk", "xt_data"} \subseteq PORT_1_2.dir <=> pc \in XtCellPcs
    /\ {"xt_clk", "xt_data"} \cap PORT_1_2.dir # {} => pc \in XtCellPcs

\* C5 witness: the ten cells of the key 0x1C have been clocked.
C5_Witness ==
    /\ pc = "xt_in" /\ xt_arg = 28 /\ obs.xt_cells = <<0, 1, 0, 0, 1, 1, 1, 0, 0, 0>>

\* C6: send_byte_to_at_keyboard goes through its steps in order. After the load
\* KEY_OUT holds the frame of the byte and the at_clk interrupt is disabled;
\* at_clk is driven low only after it has read high; at_data is driven low
\* while at_clk is held low; after the handover at_clk is released, the
\* interrupt is enabled and HOST_MODE is set, and DEVICE_ACK is true only once
\* the keyboard has sampled the whole frame of the byte; HOST_MODE is cleared,
\* and the call returns, only after DEVICE_ACK was read true.
C6_Handshake ==
    /\ pc \in {"at_wait_clk", "at_inhibit", "at_delay100", "at_delay33"} =>
          /\ KEY_OUT = KeyOutPut(at_byte)
          /\ ~PORT_1_2.ie
          /\ ~HOST_MODE
    /\ pc \in {"at_wait_clk", "at_inhibit"} => ~DrivesLow(PORT_1_2, "at_data")
    /\ pc = "at_delay100" =>
          DrivesLow(PORT_1_2, "at_clk") /\ ~DrivesLow(PORT_1_2, "at_data")
    /\ pc = "at_delay33" =>
          DrivesLow(PORT_1_2, "at_clk") /\ DrivesLow(PORT_1_2, "at_data")
    /\ pc = "at_wait_ack" =>
          /\ HOST_MODE /\ PORT_1_2.ie /\ ~DrivesLow(PORT_1_2, "at_clk")
          /\ DEVICE_ACK => (KeyOutIsEmpty(KEY_OUT) /\ obs.at_acked = at_byte)
          /\ (kb_state = "rx" /\ Len(kb_rx) = FrameBits) =>
                kb_rx = FrameSeq(at_byte, parity_bit(at_byte))
    /\ pc = "at_clear_host" => (HOST_MODE /\ DEVICE_ACK)
    /\ HOST_MODE => pc \in {"at_wait_ack", "at_clear_host"}
    /\ (obs.at_acked # -1 /\ pc \notin {"at_wait_ack", "at_clear_host"}) => DEVICE_ACK

\* C6 witness: the LED command 0xED has gone through the whole handshake and
\* the call is about to return.
C6_Witness ==
    /\ pc = "at_clear_host" /\ at_byte = CMD_LED /\ DEVICE_ACK
    /\ obs.at_acked = CMD_LED

\* C4 (as stated): send_byte_to_pc neither switches the XT lines to outputs nor
\* pulls xt_clk low for a cell while the host holds xt_clk or xt_data low.
C4_Claimed ==
    pc \in {"xt_out", "xt_clk_low"} => ~HostPulls

\* C4 (amended): while it polls, send_byte_to_pc leaves the XT lines inputs and
\* clocks nothing; it stays in the poll as long as the host holds xt_clk or
\* xt_data low, and leaves it for the first cell as soon as a poll reads both
\* high. The lines are not read again after that poll.
C4_HoldOff ==
    /\ pc = "xt_poll" =>
          /\ {"xt_clk", "xt_data"} \cap PORT_1_2.dir = {}
          /\ obs.xt_cells = <<>> /\ xt_i = 0
          /\ HostHolds = HostPulls
          /\ HostPulls => ~ENABLED MainStep
          /\ (~HostPulls /\ ~IntPending) => ENABLED XtPoll
    /\ pc \in {"xt_out", "xt_bit", "xt_clk_low"} => ENABLED MainStep \/ IntPending

\* C4 witness: the host holds xt_clk low while send_byte_to_pc polls.
C4_Witness ==
    pc = "xt_poll" /\ host_clk /\ xt_arg = BAT_OK

\* The LED commands the FSM issues after the BAT, as the keyboard acknowledges them.
LedBytes == <<CMD_LED, LED_NUM, CMD_LED, LED_CAPS + LED_NUM, CMD_LED, 0>>

\* The main loop is sending the mask byte of a LED command.
SendingMask == pc \in AtSendPcs /\ at_ret = "led_done"

\* C7 (as stated): the mask byte of a LED command is sent only after the byte
\* 0xFA has been received from the keyboard in answer to 0xED.
C7_Claimed ==
    SendingMask => obs.led_fa

\* C7 (amended): between the XT frame for the BAT and steady state the keyboard
\* acknowledges exactly the six bytes 0xED, 2, 0xED, 6, 0xED, 0, in this order;
\* the mask byte is sent after the keyboard has acknowledged 0xED on the wire
\* (DEVICE_ACK) and the delay of toggle_leds, whether or not a byte 0xFA has
\* arrived.
C7_LedSequence ==
    /\ Len(obs.led_log) <= Len(LedBytes)
    /\ obs.led_log = SubSeq(LedBytes, 1, Len(obs.led_log))
    /\ fsm_driver = "LedInit2" => Len(obs.led_log) \in 0..2
    /\ fsm_driver = "LedInit3" => Len(obs.led_log) \in 2..4
    /\ fsm_driver = "LedDone" => Len(obs.led_log) \in 4..6
    /\ fsm_driver \in {"Start", "ExpectBAT", "LedInit1", "Steady", "Emit", "Restart"} =>
          obs.led_log = <<>>
    /\ (pc = "fsm" /\ loop_reply.t = "LedToggled") => Len(obs.led_log) % 2 = 0
    /\ (pc = "fsm" /\ fsm_driver = "LedDone") => obs.led_log = LedBytes
    /\ pc \in {"led_delay", "led_done"} => DEVICE_ACK
    /\ SendingMask => Len(obs.led_log) % 2 = 1 \/ pc \in {"at_wait_ack", "at_clear_host"}
    /\ pc = "led_delay" => (Len(obs.led_log) % 2 = 1 /\ obs.at_acked = CMD_LED)

\* C7 witness: the third LED command is done and the FSM is about to enter
\* steady state.
C7_Witness ==
    /\ pc = "fsm" /\ fsm_driver = "LedDone" /\ loop_reply = Reply("LedToggled", 0)
    /\ obs.led_log = <<237, 2, 237, 6, 237, 0>>

\* C9: when a frame of the keyboard began inside send_byte_to_at_keyboard, the
\* call returns only with DEVICE_ACK set, and the start bit of the next frame
\* the keyboard begins is shifted, in device mode, into an empty KeyIn.
C9_CleanAfterCollision ==
    /\ (obs.collided /\ pc = "at_clear_host") => DEVICE_ACK
    /\ (obs.follows /\ kb_state = "tx" /\ kb_i = 0 /\ kb_clk /\ PORT_1_2.ifg) =>
          (PORT_1_2.ie /\ ~HOST_MODE /\ KEY_IN.pos = 0)

\* C9: a frame began inside send_byte_to_at_keyboard and the call has returned.
C9_Witness ==
    obs.collided /\ pc = "wfk_bat" /\ DEVICE_ACK /\ kb_state = "idle"

\* C10: the interrupt handler is never about to complete a frame, and so to call
\* IN_BUFFER.put(), while IN_BUFFER holds a word the main loop has not taken.
C10_NoOverflow ==
    (IntPending /\ ~HOST_MODE /\ KEY_IN.pos = FrameBits - 1) => BufferIsEmpty(IN_BUFFER)

\* C10: a received word waits in IN_BUFFER while at_clk is released.
C10_Witness ==
    ~BufferIsEmpty(IN_BUFFER) /\ ~DrivesLow(PORT_1_2, "at_clk") /\ kb_state = "tx"

\* The main loop is inside send_byte_to_pc, past the poll, or about to switch
\* the XT lines to outputs.
XtActive == pc \in XtCellPcs \cup {"xt_out"}

\* C8 (as stated): no XT frame is emitted before the keyboard's 0xAA has been
\* received.
C8_Claimed ==
    ~obs.booted => (~XtActive /\ obs.xt_cells = <<>>)

\* C8 (amended): until the FSM first runs, the firmware does nothing but the AT
\* transmission of 0xFF, which the keyboard has acknowledged when the FSM runs;
\* before the keyboard's 0xAA has been received an XT frame is emitted only for
\* a host reset (xt_sense low), and it is 0xAA; and unless the host asks for a
\* reset or keeps pulling the XT lines, the firmware reaches steady state.
C8_Boot ==
    /\ [](fsm_driver = "Start" =>
            /\ pc \in AtSendPcs \cup {"at_load", "fsm"}
            /\ at_byte = CMD_RESET
            /\ obs.xt_cells = <<>> /\ {"xt_clk", "xt_data"} \cap PORT_1_2.dir = {}
            /\ pc = "fsm" => (obs.at_acked = CMD_RESET /\ DEVICE_ACK /\ ~HOST_MODE))
    /\ []((~obs.booted /\ (XtActive \/ pc = "xt_poll")) => (xt_arg = BAT_OK /\ obs.reset))
    /\ [](fsm_driver \in {"LedInit1", "LedInit2", "LedInit3", "LedDone", "Steady", "Emit"} =>
            obs.booted)
    /\ \/ <>(fsm_driver = "Steady" /\ pc = "wfk_poll")
       \/ <>obs.reset
       \/ []<>HostPulls

\* C8 witness: the firmware has booted without a host reset: BAT code received
\* and sent on, three LED commands done, and it waits for keys in steady state.
C8_Witness ==
    /\ fsm_driver = "Steady" /\ pc = "wfk_poll" /\ obs.booted
    /\ kb_frames = 2 /\ xt_arg = BAT_OK /\ obs.xt_cells = XtFrame(BAT_OK)

\* IN_BUFFER goes from holding a word to empty in this step.
BufferEmptied == ~BufferIsEmpty(IN_BUFFER) /\ BufferIsEmpty(IN_BUFFER')

\* C11: take() in WaitForKey never finds IN_BUFFER empty: the main loop stands
\* before take() only with a word in IN_BUFFER and no host reset taken in this
\* WaitForKey, the unwrap never fails, and IN_BUFFER is emptied by nothing but
\* take() itself and the flush of ClearBuffer, never by the interrupt handler.
C11_TakeNeverEmpty ==
    /\ [](pc = "wfk_take" => (~BufferIsEmpty(IN_BUFFER) /\ ~obs.reset))
    /\ [](pc # "panic")
    /\ [][BufferEmptied => (pc \in {"wfk_take", "clear_buffer"} /\ ~IntPending)]_vars

\* C11 witness: the interrupt handler is about to run between the poll that
\* found a word in IN_BUFFER and take().
C11_Witness ==
    pc = "wfk_take" /\ IntPending /\ ~HOST_MODE /\ ~BufferIsEmpty(IN_BUFFER)

\* The FSM is in steady state and this WaitForKey has read no host reset.
SteadyPhase == fsm_driver \in {"Steady", "Emit"} /\ ~obs.reset

\* The XT transmission for the key taken last, and nothing else, is under way.
EmitsTaken ==
    /\ xt_arg = loop_reply.v
    /\ obs.key_src # -1 => xt_arg = obs.key_src
    /\ obs.xt_n <= 1
    /\ pc \in XtCellPcs \cup {"xt_poll", "xt_out", "sent_key", "fsm"}
    /\ pc \in {"sent_key", "fsm"} => (obs.xt_n = 1 /\ obs.xt_cells = XtFrame(xt_arg))

\* C12: in steady state no received frame is dropped, the interrupt handler
\* never completing a frame while the word of the one before waits in
\* IN_BUFFER; every word taken is followed by its XT frame, one and no more,
\* before the next word is taken.
C12_InOrder ==
    /\ (SteadyPhase /\ IntPending /\ ~HOST_MODE /\ KEY_IN.pos = FrameBits - 1) =>
          BufferIsEmpty(IN_BUFFER)
    /\ fsm_driver = "Emit" => EmitsTaken
    /\ (SteadyPhase /\ pc = "wfk_take") => fsm_driver = "Steady"

\* C12: the host holds an XT line while send_byte_to_pc polls in steady state,
\* the word of a frame received whole waits in IN_BUFFER, and the handler is
\* about to complete the next frame.
C12_Witness ==
    /\ SteadyPhase /\ fsm_driver = "Emit" /\ pc = "xt_poll" /\ HostPulls
    /\ obs.buf_src # -1 /\ ~BufferIsEmpty(IN_BUFFER)
    /\ IntPending /\ ~HOST_MODE /\ KEY_IN.pos = FrameBits - 1 /\ obs.aligned

\* The main loop is in one of the two bus waits of send_byte_to_at_keyboard and
\* the condition it waits for does not hold.
AtStuck ==
    \/ pc = "at_wait_clk" /\ ~AtClkHigh
    \/ pc = "at_wait_ack" /\ ~DEVICE_ACK

\* C13: the bus waits of send_byte_to_at_keyboard have no timeout. The wait for
\* at_clk is left only when at_clk reads high, the wait for the acknowledge only
\* when DEVICE_ACK is set, and DEVICE_ACK is set only by the handler in host
\* mode, KeyOut empty, while the keyboard pulls at_data low; as long as a wait's
\* condition does not hold the main loop makes no step at all, and leaves
\* send_byte_to_at_keyboard only through its last statement. With a keyboard
\* that keeps clocking and acknowledges, every call returns.
C13_NoTimeout ==
    /\ [][(pc = "at_wait_clk" /\ pc' # pc) => (AtClkHigh /\ pc' = "at_inhibit")]_vars
    /\ [][(pc = "at_wait_ack" /\ pc' # pc) => (DEVICE_ACK /\ pc' = "at_clear_host")]_vars
    /\ [][(~DEVICE_ACK /\ DEVICE_ACK') =>
            (IntPending /\ HOST_MODE /\ KeyOutIsEmpty(KEY_OUT) /\ kb_data)]_vars
    /\ [][(pc \in AtSendPcs /\ pc' \notin AtSendPcs) =>
            (pc = "at_clear_host" /\ pc' = at_ret)]_vars
    /\ [](AtStuck => ~ENABLED MainStep)
    /\ (pc = "at_load") ~> (pc = "at_clear_host")

\* C13 witness: the firmware has requested to send, the keyboard has not yet
\* clocked a bit, and the main loop can make no step.
C13_Witness ==
    /\ pc = "at_wait_ack" /\ ~DEVICE_ACK /\ ~IntPending /\ ~ENABLED MainStep
    /\ kb_state = "idle" /\ RequestToSend /\ KEY_OUT = KeyOutPut(at_byte)
    /\ fsm_driver = "Steady" /\ at_byte = CMD_RESET

\* The handler runs in device mode in this step.
DeviceIsr == PortaHandler /\ ~HOST_MODE

\* The at_data bit the handler samples when it runs in this state.
SampledBit == IF AtDataHigh THEN 1 ELSE 0

\* C14: in device mode every run of the handler shifts the one bit it samples
\* on at_data into KeyIn. The run that shifts the 11th bit since the last clear
\* puts the word into IN_BUFFER, clears KeyIn and leaves both AT lines
\* released (at_inhibit, then at_idle); every other run leaves IN_BUFFER as it
\* is. KeyIn is never full outside the handler, nothing but the handler in
\* device mode changes KeyIn, and IN_BUFFER receives a word only on a run that
\* completed 11 bits.
C14_DeviceIsr ==
    /\ [](~KeyInIsFull(KEY_IN))
    /\ [][DeviceIsr =>
            /\ IF KEY_IN.pos + 1 = FrameBits
               THEN /\ KEY_IN' = KeyInNew
                    /\ IN_BUFFER' = BufferPut(KeyInShiftIn(KEY_IN, SampledBit).contents)
                    /\ ~DrivesLow(PORT_1_2', "at_clk") /\ ~DrivesLow(PORT_1_2', "at_data")
               ELSE /\ KEY_IN' = KeyInShiftIn(KEY_IN, SampledBit)
                    /\ IN_BUFFER' = IN_BUFFER
                    /\ PORT_1_2' = clear_at_clk_int(PORT_1_2)
            /\ ~PORT_1_2'.ifg
            /\ UNCHANGED <<HOST_MODE, DEVICE_ACK, KEY_OUT>>]_vars
    /\ [][KEY_IN' # KEY_IN => DeviceIsr]_vars
    /\ [][(IN_BUFFER' # IN_BUFFER /\ ~BufferIsEmpty(IN_BUFFER')) =>
            (DeviceIsr /\ KEY_IN.pos = FrameBits - 1)]_vars

\* C14 witness: the handler has just completed the frame of 0x1C: its word is in
\* IN_BUFFER, KeyIn is clear, the AT lines are released and the keyboard still
\* holds the clock of the stop bit low.
C14_Witness ==
    /\ IN_BUFFER = BufferPut(AssembledWord(28, parity_bit(28))) /\ KEY_IN = KeyInNew
    /\ obs.buf_src = 28 /\ kb_state = "tx" /\ kb_i = FrameBits - 1 /\ kb_clk
    /\ ~PORT_1_2.ifg /\ ~HOST_MODE /\ ~DrivesLow(PORT_1_2, "at_clk")

\* The handler runs in host mode in this step.
HostIsr == PortaHandler /\ HOST_MODE

\* C15: in host mode a run of the handler that finds KeyOut not empty shifts
\* one bit out of it onto at_data, leaves DEVICE_ACK as it is, and releases the
\* AT lines exactly when that bit was the last; a run that finds KeyOut empty
\* sets DEVICE_ACK and clears KeyOut if at_data reads low and changes neither
\* otherwise. DEVICE_ACK goes from false to true on no other step, and when it
\* does the keyboard has sampled all eleven bits of the frame of the byte.
C15_HostIsr ==
    /\ [][HostIsr =>
            /\ IF ~KeyOutIsEmpty(KEY_OUT)
               THEN /\ KEY_OUT' = KeyOutShiftOut(KEY_OUT)
                    /\ DEVICE_ACK' = DEVICE_ACK
                    /\ "at_data" \in PORT_1_2.dir
                    /\ ("at_data" \in PORT_1_2'.out) = (KeyOutBit(KEY_OUT) = 1)
                    /\ ("at_data" \notin PORT_1_2'.dir) = KeyOutIsEmpty(KEY_OUT')
               ELSE /\ DEVICE_ACK' = (DEVICE_ACK \/ ~AtDataHigh)
                    /\ KEY_OUT' = KeyOutNew
                    /\ PORT_1_2' = clear_at_clk_int(PORT_1_2)
            /\ ~PORT_1_2'.ifg
            /\ UNCHANGED <<HOST_MODE, KEY_IN, IN_BUFFER>>]_vars
    /\ [][(~DEVICE_ACK /\ DEVICE_ACK') =>
            /\ HostIsr /\ KeyOutIsEmpty(KEY_OUT) /\ ~AtDataHigh
            /\ kb_rx = FrameSeq(at_byte, parity_bit(at_byte))]_vars
    /\ [][KEY_OUT' # KEY_OUT => (HostIsr \/ pc = "at_load")]_vars

\* C15 witness: the handler has just set DEVICE_ACK on the acknowledge of the
\* frame of 0xED, the main loop still in its wait.
C15_Witness ==
    /\ pc = "at_wait_ack" /\ DEVICE_ACK /\ HOST_MODE /\ KEY_OUT = KeyOutNew
    /\ at_byte = CMD_LED /\ kb_state = "rx" /\ kb_clk /\ kb_data
    /\ kb_rx = FrameSeq(CMD_LED, parity_bit(CMD_LED)) /\ ~PORT_1_2.ifg

\* The main loop is between the section that loads KEY_OUT and the section
\* of the handover.
BeforeHandover == pc \in {"at_wait_clk", "at_inhibit", "at_delay100", "at_delay33"}

\* C16: between the load of KEY_OUT and the handover the at_clk interrupt is
\* disabled, HOST_MODE is false and KEY_OUT holds the whole frame; the handler
\* makes no step there. The handler never runs in device mode while KEY_OUT
\* holds bits to send, KEY_OUT loses a bit only in host mode, and the interrupt
\* is never enabled with HOST_MODE false while KEY_OUT holds a frame.
C16_NoIsrBeforeHandover ==
    /\ [](BeforeHandover =>
            /\ ~PORT_1_2.ie /\ ~IntPending /\ ~HOST_MODE
            /\ KEY_OUT = KeyOutPut(at_byte))
    /\ []((PORT_1_2.ie /\ ~HOST_MODE) => KeyOutIsEmpty(KEY_OUT))
    /\ [][PortaHandler => ~BeforeHandover]_vars
    /\ [][DeviceIsr => KeyOutIsEmpty(KEY_OUT)]_vars
    /\ [][KEY_OUT'.n < KEY_OUT.n => (HostIsr /\ pc \in {"at_wait_ack", "at_clear_host"})]_vars
    /\ [][(~PORT_1_2.ie /\ PORT_1_2'.ie) => (pc = "at_delay33" /\ HOST_MODE')]_vars

\* C16 witness: the keyboard has pulled at_clk low for a bit of a frame of its
\* own after the load; the edge is flagged and the handler does not run.
C16_Witness ==
    /\ pc = "at_inhibit" /\ PORT_1_2.ifg /\ ~PORT_1_2.ie /\ ~ENABLED PortaHandler
    /\ kb_state = "tx" /\ at_byte = CMD_LED /\ KEY_OUT = KeyOutPut(CMD_LED)

\* C17: each flag is cleared before the wait on it. The handover clears
\* DEVICE_ACK in its section, the handler sets it only after the handover, and
\* DEVICE_ACK read true in the wait is the acknowledge the keyboard gave to
\* this byte. In the timer build start_timer clears TIMEOUT in the section that
\* programs the timer; the timer is stopped and has no request pending when
\* delay is called; TIMEOUT is set only by the timer's handler, which stops the
\* timer; so in the wait of a delay TIMEOUT is true exactly when the timer
\* programmed for this delay has expired, and the delay is left only then.
C17_FlagsCleared ==
    /\ [][(pc = "at_delay33" /\ pc' # pc) => (pc' = "at_wait_ack" /\ ~DEVICE_ACK')]_vars
    /\ [][(~DEVICE_ACK /\ DEVICE_ACK') => pc \in {"at_wait_ack", "at_clear_host"}]_vars
    /\ []((pc = "at_wait_ack" /\ DEVICE_ACK) => obs.at_acked = at_byte)
    /\ [][(delay_pc = "call" /\ delay_pc' = "wait") =>
            (~TIMEOUT' /\ TACCR0' = DelayTicks /\ pc \in DelayPcs)]_vars
    /\ [][(~TIMEOUT /\ TIMEOUT') => (TACCIFG /\ delay_pc = "wait" /\ TACCR0' = 0)]_vars
    /\ [](delay_pc = "call" => (TACCR0 = 0 /\ ~TACCIFG))
    /\ [](delay_pc = "wait" => (pc \in DelayPcs /\ TIMEOUT = (TACCR0 = 0)))
    /\ [][(pc \in DelayPcs /\ pc' # pc) => (delay_pc = "wait" /\ TIMEOUT)]_vars

\* C17 witness: in the second transmission to the keyboard the 33 us delay
\* waits with TIMEOUT cleared and the timer running, after the 100 us delay
\* left TIMEOUT true; DEVICE_ACK is still true from the first transmission.
C17_Witness ==
    /\ pc = "at_delay33" /\ delay_pc = "wait" /\ ~TIMEOUT /\ TACCR0 = us_to_ticks(33)
    /\ DEVICE_ACK /\ at_byte = CMD_LED /\ ~HOST_MODE

\* The main loop is outside send_byte_to_at_keyboard: in the FSM dispatch, in
\* WaitForKey, in ClearBuffer, in send_byte_to_pc or in the delay of toggle_leds.
OutsideAtSend == pc \notin AtSendPcs \cup {"at_load", "panic"}

\* C18: HOST_MODE is true only from the handover section to the store of line
\* 339 that follows the wait for DEVICE_ACK; it is false wherever the main loop
\* is outside send_byte_to_at_keyboard, so that the handler takes its
\* device-mode branch on every edge served there: it shifts KeyIn and leaves
\* KeyOut and DEVICE_ACK alone. HOST_MODE is written by the main loop only, set
\* in the handover and cleared in the last statement, never by the handler.
C18_HostModeScope ==
    /\ [](HOST_MODE => pc \in {"at_wait_ack", "at_clear_host"})
    /\ [](OutsideAtSend => ~HOST_MODE)
    /\ [][(PortaHandler /\ OutsideAtSend) =>
            (DeviceIsr /\ KEY_IN' # KEY_IN /\ UNCHANGED <<KEY_OUT, DEVICE_ACK>>)]_vars
    /\ [][PortaHandler => UNCHANGED HOST_MODE]_vars
    /\ [][HOST_MODE' # HOST_MODE =>
            \/ pc = "at_delay33" /\ pc' = "at_wait_ack" /\ HOST_MODE'
            \/ pc = "at_clear_host" /\ pc' = at_ret /\ DEVICE_ACK /\ ~HOST_MODE']_vars

\* C18 witness: the keyboard has clocked a bit while send_byte_to_pc sends a
\* key, and the handler is about to serve it in device mode.
C18_Witness ==
    /\ pc = "xt_cell" /\ xt_arg = 28 /\ fsm_driver = "Emit"
    /\ IntPending /\ ~HOST_MODE /\ kb_state = "tx"

XtBusy == pc \in XtCellPcs \cup {"xt_poll", "xt_out"}

\* The handler is about to shift in the last bit of a frame of which KeyIn
\* holds the ten bits before.
CompletesFrame ==
    /\ IntPending /\ ~HOST_MODE /\ KEY_IN.pos = FrameBits - 1
    /\ obs.aligned /\ kb_state = "tx" /\ kb_i = FrameBits - 1

\* C20: a frame the keyboard clocks in while the main loop is inside
\* send_byte_to_pc is assembled by the handler and stored in IN_BUFFER; the XT
\* frame under way still has its ten cells in order; and in steady state the
\* stored word stays in IN_BUFFER until the next WaitForKey takes it and
\* replies GrabbedKey for it.
C20_FrameKept ==
    /\ [][(PortaHandler /\ CompletesFrame /\ XtBusy) =>
            /\ IN_BUFFER' = BufferPut(AssembledWord(Head(kb_queue),
                                                    parity_bit(Head(kb_queue))))
            /\ UNCHANGED <<pc, xt_i, byte, xt_arg>>
            /\ \A pin \in {"xt_clk", "xt_data"} :
                  /\ (pin \in PORT_1_2'.out) = (pin \in PORT_1_2.out)
                  /\ (pin \in PORT_1_2'.dir) = (pin \in PORT_1_2.dir)]_vars
    /\ [](pc = "xt_in" => obs.xt_cells = XtFrame(xt_arg))
    /\ [][(SteadyPhase /\ ~BufferIsEmpty(IN_BUFFER) /\ IN_BUFFER' # IN_BUFFER) =>
            /\ pc = "wfk_take"
            /\ loop_reply' = Reply("GrabbedKey", ExtractKey(IN_BUFFER.word))]_vars

\* C20: the word of the frame of 0xF0, received during send_byte_to_pc, waits
\* in IN_BUFFER while the host holds xt_data low and send_byte_to_pc polls, and
\* the handler is about to complete the frame of 0x1C.
C20_Witness ==
    /\ fsm_driver = "Emit" /\ pc = "xt_poll" /\ host_data /\ ~obs.reset
    /\ obs.buf_src = 240 /\ IN_BUFFER = BufferPut(AssembledWord(240, parity_bit(240)))
    /\ CompletesFrame /\ Head(kb_queue) = 28

====
